---- MODULE Spec2Model ----
(***************************************************************************)
(* A model of gerador_csv.py: the column-type registry, the configuration  *)
(* collector, the generator factory, the domain value generators and the   *)
(* main program that writes the CSV file.                                  *)
(*                                                                         *)
(* Three families of specifications share the definitions below:           *)
(*   - the column pipeline (get_column_config, build_generator, one call   *)
(*     of the generator) for one column, under several input sets;         *)
(*   - the main program, position by position, with a user interrupt;      *)
(*   - two runs of the main program on the same schema and seed.           *)
(***************************************************************************)
EXTENDS Integers, Sequences, FiniteSets, TLC

VARIABLES
    \* ---- one column through the pipeline ----
    phase,      \* "input" | "build" | "call" | "done"
    code,       \* the type code handed to get_column_config / build_generator
    inp,        \* what the user types at the configuration prompts
    cfg,        \* the dict returned by get_column_config
    gen,        \* the closure returned by build_generator
    draw,       \* the random draw consumed by the last call of the generator
    out,        \* the result of the last call of the generator
    \* ---- the main program ----
    pc,         \* position in main()
    rng,        \* state of the process-wide random source (module random)
    columns,    \* list of (header, generator)
    num_cols,
    num_rows,
    file,       \* records written to the output file; <<>> when empty
    opened,     \* whether open(out_name, "w") has created the file
    row,        \* the row being generated (in memory)
    created,    \* the counter of line 402
    summary,    \* whether the success summary was printed
    status,     \* exit status of the process; -1 while it runs
    at_intr,    \* the position at which the interrupt arrived; "none" if none did
    generated,  \* history: the rows completed by line 407, in order
    \* ---- two runs with the same schema and seed ----
    runs

pipeVars == <<phase, code, inp, cfg, gen, draw, out>>
mainVars == <<pc, rng, columns, num_cols, num_rows, file, opened, row, created,
              summary, status, at_intr, generated>>
vars == <<phase, code, inp, cfg, gen, draw, out,
          pc, rng, columns, num_cols, num_rows, file, opened, row, created,
          summary, status, at_intr, generated, runs>>

(***************************************************************************)
(* Bounds of the model.                                                    *)
(***************************************************************************)
\* base digits of a CPF drawn from the whole of 0..9; the others from {0, 9}
FullDigits == 3
\* widest distance between the two years typed at the prompts
MaxSpan == 1
\* largest column count and row count typed at the prompts
MaxCols == 2
MaxRows == 2
\* values of random.random() explored at each end of a float range
FloatWindow == 30

(***************************************************************************)
(* Small helpers: Python's str(int), dict.get, list handling.              *)
(***************************************************************************)
DigitChar == <<"0", "1", "2", "3", "4", "5", "6", "7", "8", "9">>

RECURSIVE Str(_)
\* str(n) / f"{n}" for n >= 0, as a sequence of characters
Str(n) == IF n < 10 THEN <<DigitChar[n + 1]>>
          ELSE Str(n \div 10) \o <<DigitChar[(n % 10) + 1]>>

RECURSIVE Flatten(_)
Flatten(ss) == IF ss = <<>> THEN <<>> ELSE Head(ss) \o Flatten(Tail(ss))

RECURSIVE SumSeq(_)
SumSeq(s) == IF s = <<>> THEN 0 ELSE Head(s) + SumSeq(Tail(s))

\* cfg.get(k, default)
Get(c, k, default) == IF k \in DOMAIN c THEN c[k] ELSE default

\* the empty dict
EmptyCfg == [k \in {} |-> 0]

Min(a, b) == IF a <= b THEN a ELSE b
Max(a, b) == IF a >= b THEN a ELSE b

(***************************************************************************)
(* CPF (lines 199-213).                                                    *)
(***************************************************************************)
\* a variant that only maps remainder 0 to 0 (so remainder 1 yields 10)
cpf_dv_lt1(digs) ==
    LET peso == [i \in 1..Len(digs) |-> Len(digs) + 2 - i]
        soma == SumSeq([i \in 1..Len(digs) |-> digs[i] * peso[i]])
        resto == soma % 11
    IN  IF resto < 1 THEN 0 ELSE 11 - resto

\* _cpf_dv: peso = range(len+1, 1, -1); soma; resto = soma % 11
cpf_dv(digs) ==
    LET peso == [i \in 1..Len(digs) |-> Len(digs) + 2 - i]
        soma == SumSeq([i \in 1..Len(digs) |-> digs[i] * peso[i]])
        resto == soma % 11
    IN  IF resto < 2 THEN 0 ELSE 11 - resto

\* rand_cpf, given the nine digits drawn at line 207
rand_cpf(b, formatado) ==
    LET dv1 == cpf_dv(b)
        dv2 == cpf_dv(b \o <<dv1>>)
        nums == b \o <<dv1, dv2>>
        s == [i \in 1..11 |-> Str(nums[i])]
    IN  IF formatado
        THEN s[1] \o s[2] \o s[3] \o <<".">> \o s[4] \o s[5] \o s[6] \o <<".">>
             \o s[7] \o s[8] \o s[9] \o <<"-">> \o s[10] \o s[11]
        ELSE Flatten(s)

\* the draws of line 207: random.randint(0, 9), nine times
Digits == 0..9
EdgeDigits == {0, 9}
CpfDraws == {hd \o tl : hd \in [1..FullDigits -> Digits],
                        tl \in [1..(9 - FullDigits) -> EdgeDigits]}

(***************************************************************************)
(* Calendar arithmetic of datetime / timedelta as used by lines 179-195.   *)
(***************************************************************************)
IsLeap(y) == y % 4 = 0 /\ (y % 100 # 0 \/ y % 400 = 0)

DaysInMonth(y, m) ==
    IF m = 2 THEN (IF IsLeap(y) THEN 29 ELSE 28)
    ELSE IF m \in {4, 6, 9, 11} THEN 30 ELSE 31

DaysInYear(y) == IF IsLeap(y) THEN 366 ELSE 365

RECURSIVE DaysBeforeMonth(_, _)
DaysBeforeMonth(y, m) ==
    IF m = 1 THEN 0 ELSE DaysBeforeMonth(y, m - 1) + DaysInMonth(y, m - 1)

DaysBeforeYear(y) ==
    (y - 1) * 365 + (y - 1) \div 4 - (y - 1) \div 100 + (y - 1) \div 400

\* datetime(y, m, d, ...) raises ValueError outside MINYEAR..MAXYEAR
ValidYear(y) == y \in 1..9999

\* date.toordinal()
ToOrdinal(y, m, d) == DaysBeforeYear(y) + DaysBeforeMonth(y, m) + d

RECURSIVE YearOfOrdinal(_, _)
YearOfOrdinal(n, y) ==
    IF n > DaysBeforeYear(y) + DaysInYear(y) THEN YearOfOrdinal(n, y + 1) ELSE y

RECURSIVE MonthOfDay(_, _, _)
\* the month holding the k-th day (1-based) of year y
MonthOfDay(y, k, m) ==
    IF k > DaysBeforeMonth(y, m) + DaysInMonth(y, m)
    THEN MonthOfDay(y, k, m + 1) ELSE m

\* date.fromordinal(n): the calendar day with ordinal n
FromOrdinal(n) ==
    LET y == YearOfOrdinal(n, ((n - 1) \div 366) + 1)
        k == n - DaysBeforeYear(y)
        m == MonthOfDay(y, k, 1)
    IN  [year |-> y, month |-> m, day |-> k - DaysBeforeMonth(y, m)]

SecondsPerDay == 24 * 60 * 60

\* a variant that always allows 365 days of offset
date_delta_days_365(y) == 365

\* lines 182-184: (datetime(y, 12, 31) - datetime(y, 1, 1)).days
date_delta_days(y) == ToOrdinal(y, 12, 31) - ToOrdinal(y, 1, 1)

\* lines 190-192: int((datetime(y,12,31,23,59,59) - datetime(y,1,1)).total_seconds())
datetime_total_seconds(y) ==
    (ToOrdinal(y, 12, 31) - ToOrdinal(y, 1, 1)) * SecondsPerDay
    + 23 * 3600 + 59 * 60 + 59

\* results of a call of a generator
Returned(v) == [exc |-> "none", val |-> v]
Raised(e) == [exc |-> e, val |-> <<>>]

\* rand_date, given the draws d = <<y, n>> of lines 180 and 185
rand_date(year_start, year_end, d) ==
    IF year_start > year_end THEN Raised("ValueError")      \* randint: empty range
    ELSE IF ~ValidYear(d[1]) THEN Raised("ValueError")      \* datetime(y, 1, 1)
    ELSE LET n == ToOrdinal(d[1], 1, 1) + d[2]
         IN  IF n > ToOrdinal(9999, 12, 31) THEN Raised("OverflowError")
             ELSE Returned(FromOrdinal(n))

\* rand_datetime, given the draws d = <<y, offset>> of lines 189 and 193
rand_datetime(year_start, year_end, d) ==
    IF year_start > year_end THEN Raised("ValueError")
    ELSE IF ~ValidYear(d[1]) THEN Raised("ValueError")
    ELSE LET n == ToOrdinal(d[1], 1, 1) + (d[2] \div SecondsPerDay)
             s == d[2] % SecondsPerDay
         IN  IF n > ToOrdinal(9999, 12, 31) THEN Raised("OverflowError")
             ELSE Returned([year |-> FromOrdinal(n).year,
                            month |-> FromOrdinal(n).month,
                            day |-> FromOrdinal(n).day,
                            hour |-> s \div 3600,
                            minute |-> (s % 3600) \div 60,
                            second |-> s % 60])

\* seconds of the day sampled for the offset of line 193
SecondSamples == {0, 1, 12 * 3600, SecondsPerDay - 1}

\* the draws of rand_date: y = randint(ys, ye), then randint(0, delta.days)
DateDraws(ys, ye) ==
    IF ys > ye THEN {<<0, 0>>}
    ELSE UNION {IF ValidYear(y) THEN {<<y, n>> : n \in 0..date_delta_days(y)}
                ELSE {<<y, 0>>} : y \in ys..ye}

\* the draws of rand_datetime: y, then randint(0, total_seconds), sampled
DatetimeDraws(ys, ye) ==
    IF ys > ye THEN {<<0, 0>>}
    ELSE UNION {IF ValidYear(y)
                THEN {<<y, o>> : o \in {dd * SecondsPerDay + s :
                                         dd \in 0..(datetime_total_seconds(y) \div SecondsPerDay),
                                         s \in SecondSamples}
                                       \cap 0..datetime_total_seconds(y)}
                ELSE {<<y, 0>>} : y \in ys..ye}

(***************************************************************************)
(* Floats.  A float is NaN or a non-negative decimal number held as an     *)
(* integer count of units of 10^-FracDigits.                               *)
(***************************************************************************)
\* decimal digits the model keeps after the point
FracDigits == 3

RECURSIVE Pow(_, _)
Pow(b, n) == IF n = 0 THEN 1 ELSE b * Pow(b, n - 1)

Pow10(n) == Pow(10, n)

Num(v) == [k |-> "num", v |-> v]
NaN == [k |-> "nan", v |-> 0]

\* Python's comparisons: every comparison with NaN is False
FGt(a, b) == a.k = "num" /\ b.k = "num" /\ a.v > b.v
FLe(a, b) == a.k = "num" /\ b.k = "num" /\ a.v <= b.v

\* whether the decimal number v units is a binary float exactly
ExactFloat(v) == (v * Pow(2, FracDigits)) % Pow(10, FracDigits) = 0

\* whether v lies exactly between two neighbours with `decimals` digits
IsTie(v, decimals) ==
    /\ decimals < FracDigits
    /\ 2 * (v % Pow(10, FracDigits - decimals)) = Pow(10, FracDigits - decimals)

\* round(val, decimals) of line 169: to the nearest neighbour, an exact tie
\* to the even one
Round(val, decimals) ==
    IF val.k = "nan" \/ decimals >= FracDigits THEN val
    ELSE LET unit == Pow(10, FracDigits - decimals)
             q == val.v \div unit
             r == val.v % unit
         IN  IF 2 * r < unit \/ (2 * r = unit /\ q % 2 = 0)
             THEN Num(q * unit) ELSE Num((q + 1) * unit)

\* rand_float, given the draw d, the value of
\* random.random() * (max_val - min_val) + min_val
rand_float(min_val, max_val, decimals, d) ==
    IF min_val.k = "nan" \/ max_val.k = "nan" THEN NaN
    ELSE Round(Num(d), decimals)

\* the draws of rand_float, after the swap of lines 166-167: the values
\* within FloatWindow units of either end of [min, max), without those that
\* lie, in decimal, exactly between two neighbours and are no binary float
\* (the float next to such a value lies on either side of it)
FloatDraws(min_val, max_val, decimals) ==
    IF min_val.k = "nan" \/ max_val.k = "nan" THEN {0}
    ELSE LET lo == IF FGt(min_val, max_val) THEN max_val.v ELSE min_val.v
             hi == IF FGt(min_val, max_val) THEN min_val.v ELSE max_val.v
             top == IF lo = hi THEN hi ELSE hi - 1
         IN  {v \in (lo..Min(top, lo + FloatWindow)) \cup (Max(lo, top - FloatWindow)..top) :
                  IsTie(v, decimals) => ExactFloat(v)}

RECURSIVE Zeros(_)
Zeros(n) == IF n <= 0 THEN <<>> ELSE <<"0">> \o Zeros(n - 1)

\* str(n) left-padded with zeros to width w (f"{n:0wd}")
Pad(n, w) == Zeros(w - Len(Str(n))) \o Str(n)

\* f"{x:.{dec}f}": fixed-point text with dec digits after the point; the
\* conversion rounds to nearest, an exact tie to the even neighbour
FormatFixed(x, dec) ==
    IF x.k = "nan" THEN <<"n", "a", "n">>
    ELSE LET unit == IF dec >= FracDigits THEN 1 ELSE Pow10(FracDigits - dec)
             q == x.v \div unit
             r == x.v % unit
             n == IF 2 * r < unit \/ (2 * r = unit /\ q % 2 = 0) THEN q ELSE q + 1
             shown == Min(dec, FracDigits)
             ip == n \div Pow10(shown)
             fp == n % Pow10(shown)
         IN  Str(ip) \o (IF dec = 0 THEN <<>>
                         ELSE <<".">> \o Pad(fp, shown) \o Zeros(dec - shown))

(***************************************************************************)
(* Prompts (lines 40-71).  A prompt loops until the text typed is          *)
(* accepted; `typed` is the entry that ends the loop.                      *)
(***************************************************************************)
Empty == [k |-> "empty", v |-> 0]

\* prompt_int: "" gives the default; digits give int(raw) if within `allowed`
PromptIntAccepts(typed, allowed) ==
    typed.k = "empty" \/ (typed.k = "num" /\ typed.v >= 0 /\ typed.v \in allowed)

prompt_int(typed, default) == IF typed.k = "empty" THEN default ELSE typed.v

\* prompt_float: "" gives float(default); otherwise whatever float(raw) returns
prompt_float(typed, default) == IF typed.k = "empty" THEN Num(default) ELSE typed

RECURSIVE LStrip(_)
LStrip(s) == IF s # <<>> /\ Head(s) = " " THEN LStrip(Tail(s)) ELSE s

RECURSIVE RStrip(_)
RStrip(s) == IF s # <<>> /\ s[Len(s)] = " " THEN RStrip(SubSeq(s, 1, Len(s) - 1)) ELSE s

\* str.strip()
Strip(s) == RStrip(LStrip(s))

RECURSIVE SplitFrom(_, _, _)
\* str.split(","): cur is the token being read
SplitFrom(s, cur, sep) ==
    IF s = <<>> THEN <<cur>>
    ELSE IF Head(s) = sep THEN <<cur>> \o SplitFrom(Tail(s), <<>>, sep)
    ELSE SplitFrom(Tail(s), Append(cur, Head(s)), sep)

Split(s, sep) == SplitFrom(s, <<>>, sep)

\* prompt_str
prompt_str(raw, default) == IF Strip(raw) = <<>> THEN default ELSE Strip(raw)

\* datetime.now().year, the default of the final year
CurrentYear == 2026

(***************************************************************************)
(* The registry (lines 242-274).                                           *)
(***************************************************************************)
ColumnType(c, label, needs_config) ==
    [code |-> c, label |-> label, needs_config |-> needs_config]

COLUMN_TYPES == <<
    ColumnType("full_name", "Nome completo", FALSE),
    ColumnType("first_name", "Nome", FALSE),
    ColumnType("last_name", "Sobrenome", FALSE),
    ColumnType("email", "E-mail", FALSE),
    ColumnType("phone", "Telefone (BR)", FALSE),
    ColumnType("cpf", "CPF (falso)", FALSE),
    ColumnType("address", "Endereco completo", FALSE),
    ColumnType("city", "Cidade", FALSE),
    ColumnType("state", "Estado (UF)", FALSE),
    ColumnType("cep", "CEP (falso)", FALSE),
    ColumnType("date", "Data (YYYY-MM-DD)", TRUE),
    ColumnType("datetime", "Data e Hora (YYYY-MM-DD HH:MM:SS)", TRUE),
    ColumnType("int", "Numero inteiro", TRUE),
    ColumnType("float", "Numero decimal", TRUE),
    ColumnType("bool", "Booleano", FALSE),
    ColumnType("uuid", "UUID v4", FALSE),
    ColumnType("company", "Empresa", FALSE),
    ColumnType("job", "Cargo (trabalho)", FALSE),
    ColumnType("url", "URL", FALSE),
    ColumnType("sentence", "Texto curto (lorem)", FALSE),
    ColumnType("picklist", "Lista de opcoes (categorias)", TRUE),
    ColumnType("price", "Preco monetario", TRUE) >>

RegistryCodes == {COLUMN_TYPES[i].code : i \in 1..Len(COLUMN_TYPES)}

\* col_type.needs_config of the descriptor with this code
NeedsConfig(c) == \E i \in 1..Len(COLUMN_TYPES) :
                      COLUMN_TYPES[i].code = c /\ COLUMN_TYPES[i].needs_config

(***************************************************************************)
(* get_column_config (lines 281-313).  inp.a, inp.b, inp.c are the entries *)
(* accepted by the first, second and third prompt of the branch.           *)
(***************************************************************************)
\* the swap of lines 286-287, 292-293, 297-298, 302-303, 311-312
SwapIf(c, inverted, lo, hi) ==
    IF inverted THEN [c EXCEPT ![lo] = c[hi], ![hi] = c[lo]] ELSE c

\* line 306: [o.strip() for o in opts.split(",") if o.strip()]
ParseOptions(opts) ==
    LET toks == Split(opts, ",")
    IN  SelectSeq([i \in 1..Len(toks) |-> Strip(toks[i])], LAMBDA o : o # <<>>)

get_column_config(col_type_code, i) ==
    IF col_type_code = "int" THEN
        LET c == [min |-> prompt_int(i.a, 0), max |-> prompt_int(i.b, 100)]
        IN  SwapIf(c, c["min"] > c["max"], "min", "max")
    ELSE IF col_type_code = "float" THEN
        LET c == [min |-> prompt_float(i.a, 0),
                  max |-> prompt_float(i.b, 100 * Pow10(FracDigits)),
                  decimals |-> prompt_int(i.c, 2)]
        IN  SwapIf(c, FGt(c["min"], c["max"]), "min", "max")
    ELSE IF col_type_code = "date" THEN
        LET c == [year_start |-> prompt_int(i.a, 2015),
                  year_end |-> prompt_int(i.b, CurrentYear)]
        IN  SwapIf(c, c["year_start"] > c["year_end"], "year_start", "year_end")
    ELSE IF col_type_code = "datetime" THEN
        LET c == [year_start |-> prompt_int(i.a, 2015),
                  year_end |-> prompt_int(i.b, CurrentYear)]
        IN  SwapIf(c, c["year_start"] > c["year_end"], "year_start", "year_end")
    ELSE IF col_type_code = "picklist" THEN
        [options |-> ParseOptions(prompt_str(i.a, <<"A", ",", "B", ",", "C">>))]
    ELSE IF col_type_code = "price" THEN
        LET c == [min |-> prompt_float(i.a, 10 * Pow10(FracDigits)),
                  max |-> prompt_float(i.b, 1000 * Pow10(FracDigits)),
                  decimals |-> prompt_int(i.c, 2)]
        IN  SwapIf(c, FGt(c["min"], c["max"]), "min", "max")
    ELSE EmptyCfg

\* the values prompt_int accepts for "decimals" (lines 291 and 310)
DecimalsAllowed(col_type_code) == IF col_type_code = "price" THEN 0..4 ELSE 0..10

(***************************************************************************)
(* build_generator (lines 315-368).  A closure is the branch that built    *)
(* it, the function it calls and the configuration values it captured.     *)
(***************************************************************************)
Closure(branch, fn, args) == [branch |-> branch, fn |-> fn, args |-> args]

\* a variant with no branch for "price" (it falls through to the fallback)
build_generator_no_price(col_type_code, c) ==
    IF col_type_code = "full_name" THEN Closure("full_name", "rand_full_name", <<>>)
    ELSE IF col_type_code = "first_name" THEN Closure("first_name", "rand_first_name", <<>>)
    ELSE IF col_type_code = "last_name" THEN Closure("last_name", "rand_last_name", <<>>)
    ELSE IF col_type_code = "email" THEN Closure("email", "rand_email", <<>>)
    ELSE IF col_type_code = "phone" THEN Closure("phone", "rand_phone", <<>>)
    ELSE IF col_type_code = "cpf" THEN Closure("cpf", "rand_cpf", <<TRUE>>)
    ELSE IF col_type_code = "address" THEN Closure("address", "rand_address", <<>>)
    ELSE IF col_type_code = "city" THEN Closure("city", "rand_city", <<>>)
    ELSE IF col_type_code = "state" THEN Closure("state", "rand_state", <<>>)
    ELSE IF col_type_code = "cep" THEN Closure("cep", "rand_cep", <<TRUE>>)
    ELSE IF col_type_code = "date" THEN
        Closure("date", "rand_date",
                <<Get(c, "year_start", 2015), Get(c, "year_end", CurrentYear)>>)
    ELSE IF col_type_code = "datetime" THEN
        Closure("datetime", "rand_datetime",
                <<Get(c, "year_start", 2015), Get(c, "year_end", CurrentYear)>>)
    ELSE IF col_type_code = "int" THEN
        Closure("int", "rand_int", <<Get(c, "min", 0), Get(c, "max", 100)>>)
    ELSE IF col_type_code = "float" THEN
        Closure("float", "rand_float",
                <<Get(c, "min", Num(0)), Get(c, "max", Num(100 * Pow10(FracDigits))),
                  Get(c, "decimals", 2)>>)
    ELSE IF col_type_code = "bool" THEN Closure("bool", "rand_bool", <<>>)
    ELSE IF col_type_code = "uuid" THEN Closure("uuid", "rand_uuid", <<>>)
    ELSE IF col_type_code = "company" THEN Closure("company", "rand_company", <<>>)
    ELSE IF col_type_code = "job" THEN Closure("job", "rand_job", <<>>)
    ELSE IF col_type_code = "url" THEN Closure("url", "rand_url", <<>>)
    ELSE IF col_type_code = "sentence" THEN Closure("sentence", "rand_sentence", <<>>)
    ELSE IF col_type_code = "picklist" THEN
        Closure("picklist", "random.choice",
                <<Get(c, "options", <<<<"A">>, <<"B">>, <<"C">>>>)>>)
    ELSE Closure("fallback", "rand_uuid", <<>>)

build_generator(col_type_code, c) ==
    IF col_type_code = "full_name" THEN Closure("full_name", "rand_full_name", <<>>)
    ELSE IF col_type_code = "first_name" THEN Closure("first_name", "rand_first_name", <<>>)
    ELSE IF col_type_code = "last_name" THEN Closure("last_name", "rand_last_name", <<>>)
    ELSE IF col_type_code = "email" THEN Closure("email", "rand_email", <<>>)
    ELSE IF col_type_code = "phone" THEN Closure("phone", "rand_phone", <<>>)
    ELSE IF col_type_code = "cpf" THEN Closure("cpf", "rand_cpf", <<TRUE>>)
    ELSE IF col_type_code = "address" THEN Closure("address", "rand_address", <<>>)
    ELSE IF col_type_code = "city" THEN Closure("city", "rand_city", <<>>)
    ELSE IF col_type_code = "state" THEN Closure("state", "rand_state", <<>>)
    ELSE IF col_type_code = "cep" THEN Closure("cep", "rand_cep", <<TRUE>>)
    ELSE IF col_type_code = "date" THEN
        Closure("date", "rand_date",
                <<Get(c, "year_start", 2015), Get(c, "year_end", CurrentYear)>>)
    ELSE IF col_type_code = "datetime" THEN
        Closure("datetime", "rand_datetime",
                <<Get(c, "year_start", 2015), Get(c, "year_end", CurrentYear)>>)
    ELSE IF col_type_code = "int" THEN
        Closure("int", "rand_int", <<Get(c, "min", 0), Get(c, "max", 100)>>)
    ELSE IF col_type_code = "float" THEN
        Closure("float", "rand_float",
                <<Get(c, "min", Num(0)), Get(c, "max", Num(100 * Pow10(FracDigits))),
                  Get(c, "decimals", 2)>>)
    ELSE IF col_type_code = "bool" THEN Closure("bool", "rand_bool", <<>>)
    ELSE IF col_type_code = "uuid" THEN Closure("uuid", "rand_uuid", <<>>)
    ELSE IF col_type_code = "company" THEN Closure("company", "rand_company", <<>>)
    ELSE IF col_type_code = "job" THEN Closure("job", "rand_job", <<>>)
    ELSE IF col_type_code = "url" THEN Closure("url", "rand_url", <<>>)
    ELSE IF col_type_code = "sentence" THEN Closure("sentence", "rand_sentence", <<>>)
    ELSE IF col_type_code = "picklist" THEN
        Closure("picklist", "random.choice",
                <<Get(c, "options", <<<<"A">>, <<"B">>, <<"C">>>>)>>)
    ELSE IF col_type_code = "price" THEN
        Closure("price", "rand_float",
                <<Get(c, "min", Num(10 * Pow10(FracDigits))),
                  Get(c, "max", Num(1000 * Pow10(FracDigits))),
                  Get(c, "decimals", 2)>>)
    ELSE Closure("fallback", "rand_uuid", <<>>)

(***************************************************************************)
(* One call of a closure: the lambda bodies of lines 318-368 and the       *)
(* generators they call, given the random draw d the call consumes.        *)
(***************************************************************************)
\* os.urandom, the source of uuid4 (line 175): not the module random
Entropy == {0, 1}

\* the draw of a generator whose value no claim looks into
Sample == {0, 1}

\* the draws one call of the closure g can make
DrawsFor(g) ==
    IF g.fn = "rand_cpf" THEN CpfDraws
    ELSE IF g.fn = "rand_date" THEN DateDraws(g.args[1], g.args[2])
    ELSE IF g.fn = "rand_datetime" THEN DatetimeDraws(g.args[1], g.args[2])
    ELSE IF g.fn = "rand_int" THEN
        (IF g.args[1] > g.args[2] THEN {0} ELSE g.args[1]..g.args[2])
    ELSE IF g.fn = "rand_float" THEN FloatDraws(g.args[1], g.args[2], g.args[3])
    ELSE IF g.fn = "rand_bool" THEN BOOLEAN
    ELSE IF g.fn = "rand_uuid" THEN Entropy
    ELSE IF g.fn = "random.choice" THEN
        (IF g.args[1] = <<>> THEN {0} ELSE 1..Len(g.args[1]))
    ELSE Sample

\* the value the closure g returns, or the exception it raises
Call(g, d) ==
    IF g.fn = "rand_cpf" THEN Returned(rand_cpf(d, g.args[1]))
    ELSE IF g.fn = "rand_date" THEN rand_date(g.args[1], g.args[2], d)
    ELSE IF g.fn = "rand_datetime" THEN rand_datetime(g.args[1], g.args[2], d)
    ELSE IF g.fn = "rand_int" THEN
        (IF g.args[1] > g.args[2] THEN Raised("ValueError") ELSE Returned(Str(d)))
    ELSE IF g.fn = "rand_float" THEN
        Returned(FormatFixed(rand_float(g.args[1], g.args[2], g.args[3], d), g.args[3]))
    ELSE IF g.fn = "rand_bool" THEN Returned(IF d THEN "true" ELSE "false")
    ELSE IF g.fn = "rand_uuid" THEN Returned(<<"uuid4", d>>)
    ELSE IF g.fn = "random.choice" THEN
        (IF g.args[1] = <<>> THEN Raised("IndexError") ELSE Returned(g.args[1][d]))
    ELSE Returned(<<g.fn, d>>)

(***************************************************************************)
(* The column pipeline: lines 389-394 of main for one column, then one     *)
(* call of the generator (line 407).                                       *)
(***************************************************************************)
NoInp == [a |-> Empty, b |-> Empty, c |-> Empty]
NoGen == Closure("none", "none", <<>>)
NoOut == [exc |-> "pending", val |-> <<>>]

\* lines 389-392: cfg = {} unless the type needs configuration
CollectConfig ==
    /\ phase = "input"
    /\ cfg' = IF NeedsConfig(code) THEN get_column_config(code, inp) ELSE EmptyCfg
    /\ phase' = "build"
    /\ UNCHANGED <<code, inp, gen, draw, out>>
    /\ UNCHANGED <<mainVars, runs>>

\* line 394
BuildGenerator ==
    /\ phase = "build"
    /\ gen' = build_generator(code, cfg)
    /\ phase' = "call"
    /\ UNCHANGED <<code, inp, cfg, draw, out>>
    /\ UNCHANGED <<mainVars, runs>>

\* line 407: gen()
CallGenerator ==
    /\ phase = "call"
    /\ \E d \in DrawsFor(gen) :
          /\ draw' = d
          /\ out' = Call(gen, d)
    /\ phase' = "done"
    /\ UNCHANGED <<code, inp, cfg, gen>>
    /\ UNCHANGED <<mainVars, runs>>

NextPipe == CollectConfig \/ BuildGenerator \/ CallGenerator

NextBuild == BuildGenerator \/ CallGenerator

MainIdle ==
    /\ pc = "idle" /\ rng = 0 /\ columns = <<>> /\ num_cols = 0 /\ num_rows = 0
    /\ file = <<>> /\ opened = FALSE /\ row = <<>> /\ created = 0
    /\ summary = FALSE /\ status = -1 /\ at_intr = "none" /\ generated = <<>>

RunsIdle == runs = <<>>

\* a column of type c configured by the entries i
InitPipe(Inputs) ==
    /\ \E ci \in Inputs : code = ci[1] /\ inp = ci[2]
    /\ phase = "input" /\ cfg = EmptyCfg /\ gen = NoGen
    /\ draw = <<>> /\ out = NoOut
    /\ MainIdle /\ RunsIdle

\* ---- the entries typed at the prompts, per type ----
Entries(a, b, c) == [a |-> a, b |-> b, c |-> c]

CpfInputs == {<<"cpf", NoInp>>}

YearSamples == {0, 1, 1900, 2000, 2023, 2024, 9999, 10000}

YearPairs ==
    {<<Empty, Empty>>} \cup
    UNION {{<<Num(a), Num(b)>> : b \in {x \in (a - MaxSpan)..(a + MaxSpan) : x >= 0}}
           : a \in YearSamples}

DateInputs ==
    {<<c, Entries(p[1], p[2], Empty)>> : c \in {"date", "datetime"}, p \in YearPairs}

IntSamples == {Empty, Num(0), Num(3), Num(7), Num(250)}

IntInputs == {<<"int", Entries(a, b, Empty)>> : a \in IntSamples, b \in IntSamples}

\* 0.121, 0.126, 0.129, 0.144 and 2.5 when FracDigits = 3; float("nan")
FloatSamples == {Empty, Num(0), Num(121), Num(126), Num(129), Num(144), Num(2500), NaN}

DecimalsSamples == {Empty, Num(0), Num(1), Num(2), Num(4), Num(10)}

FloatInputs ==
    UNION {{<<c, Entries(a, b, n)>> : a \in FloatSamples, b \in FloatSamples,
                                      n \in {x \in DecimalsSamples :
                                               PromptIntAccepts(x, DecimalsAllowed(c))}}
           : c \in {"float", "price"}}

RECURSIVE SeqsUpTo(_, _)
\* the sequences over S of length at most n
SeqsUpTo(S, n) ==
    IF n = 0 THEN {<<>>}
    ELSE SeqsUpTo(S, n - 1) \cup
         {Append(t, x) : t \in {u \in SeqsUpTo(S, n - 1) : Len(u) = n - 1}, x \in S}

\* longest text typed at the picklist prompt
MaxRaw == 3

PickInputs ==
    {<<"picklist", Entries(r, Empty, Empty)>> : r \in SeqsUpTo({" ", ",", "A", "B"}, MaxRaw)}

InitCpf == InitPipe(CpfInputs)
InitDate == InitPipe(DateInputs)
InitFloat == InitPipe(FloatInputs)
InitPick == InitPipe(PickInputs)
InitCfg == InitPipe(IntInputs \cup FloatInputs \cup DateInputs)

SpecCpf == InitCpf /\ [][NextPipe]_vars
SpecDate == InitDate /\ [][NextPipe]_vars
SpecFloat == InitFloat /\ [][NextPipe]_vars
SpecPick == InitPick /\ [][NextPipe]_vars
SpecCfg == InitCfg /\ [][NextPipe]_vars

\* ---- build_generator on its own: any code, any mapping ----
AnyCodes == RegistryCodes \cup {"", "unknown", "INT"}

\* configuration mappings handed to build_generator for the code c: empty,
\* with foreign keys, partial, and complete
CfgsFor(c) ==
    {EmptyCfg, [foo |-> 1]} \cup
    (IF c = "int" THEN {[min |-> 5], [max |-> 7], [min |-> 2, max |-> 4]}
     ELSE IF c \in {"float", "price"}
     THEN {[decimals |-> 0], [min |-> Num(121), max |-> Num(144), decimals |-> 2]}
     ELSE IF c \in {"date", "datetime"}
     THEN {[year_start |-> 2024], [year_start |-> 2023, year_end |-> 2024]}
     ELSE IF c = "picklist" THEN {[options |-> <<>>], [options |-> <<<<"X">>, <<"Y">>>>]}
     ELSE {})

InitBuild ==
    /\ code \in AnyCodes
    /\ cfg \in CfgsFor(code)
    /\ phase = "build" /\ inp = NoInp /\ gen = NoGen
    /\ draw = <<>> /\ out = NoOut
    /\ MainIdle /\ RunsIdle

SpecBuild == InitBuild /\ [][NextBuild]_vars

(***************************************************************************)
(* Properties of the column pipeline.                                      *)
(***************************************************************************)
CharDigit(ch) == CHOOSE n \in 0..9 : DigitChar[n + 1] = ch

IsDigitChar(ch) == \E n \in 0..9 : DigitChar[n + 1] = ch

\* the digits of a text, in order, its other characters dropped
DigitsOf(s) ==
    LET ds == SelectSeq(s, IsDigitChar)
    IN  [i \in 1..Len(ds) |-> CharDigit(ds[i])]

\* the modulo-11 check digit with weights top, top - 1, ..., 2
Mod11Remainder(digs, top) ==
    SumSeq([i \in 1..Len(digs) |-> digs[i] * (top + 1 - i)]) % 11

Mod11Check(digs, top) ==
    IF Mod11Remainder(digs, top) < 2 THEN 0 ELSE 11 - Mod11Remainder(digs, top)

\* C1: the identifier built from any nine base digits is DDD.DDD.DDD-DD: its
\* first nine digits are the base, its tenth digit is the modulo-11 check
\* digit of the first nine (weights 10..2), its eleventh that of the first ten
\* (weights 11..2), and both check digits are single digits.
C1_CheckDigits ==
    (phase = "done" /\ gen.fn = "rand_cpf") =>
        LET ds == DigitsOf(out.val)
        IN  /\ out.exc = "none"
            /\ Len(out.val) = 14
            /\ out.val[4] = "." /\ out.val[8] = "." /\ out.val[12] = "-"
            /\ Len(ds) = 11
            /\ SubSeq(ds, 1, 9) = draw
            /\ ds[10] = Mod11Check(SubSeq(ds, 1, 9), 10)
            /\ ds[11] = Mod11Check(SubSeq(ds, 1, 10), 11)
            /\ ds[10] \in 0..9 /\ ds[11] \in 0..9

\* a CPF whose first weighted sum leaves remainder 1 and whose second leaves more
C1_Witness ==
    /\ phase = "done" /\ gen.fn = "rand_cpf"
    /\ Mod11Remainder(draw, 10) = 1
    /\ DigitsOf(out.val)[10] = 0
    /\ DigitsOf(out.val)[11] > 0

\* C3: with only blank tokens typed at the picklist prompt, a call of the
\* generator returns a value instead of raising.
C3_EmptyPicklistReturns ==
    (phase = "done" /\ code = "picklist" /\ cfg["options"] = <<>>) => out.exc = "none"

RangedCodes == {"int", "float", "price", "date", "datetime"}

\* the two values entered at the range prompts of the type c
Entered(c, i) ==
    IF c = "int" THEN <<prompt_int(i.a, 0), prompt_int(i.b, 100)>>
    ELSE IF c = "float" THEN <<prompt_float(i.a, 0), prompt_float(i.b, 100 * Pow10(FracDigits))>>
    ELSE IF c = "price" THEN <<prompt_float(i.a, 10 * Pow10(FracDigits)),
                               prompt_float(i.b, 1000 * Pow10(FracDigits))>>
    ELSE <<prompt_int(i.a, 2015), prompt_int(i.b, CurrentYear)>>

\* C5: for every ranged type and every pair of accepted entries, the
\* configuration returned is ordered (min <= max, year_start <= year_end) and
\* holds the two entered values, swapped exactly when they were inverted.
C5_RangeNormalized ==
    (phase # "input" /\ code \in RangedCodes) =>
        LET lo == IF code \in {"date", "datetime"} THEN cfg["year_start"] ELSE cfg["min"]
            hi == IF code \in {"date", "datetime"} THEN cfg["year_end"] ELSE cfg["max"]
            e == Entered(code, inp)
            isFloat == code \in {"float", "price"}
            inverted == IF isFloat THEN FGt(e[1], e[2]) ELSE e[1] > e[2]
        IN  /\ IF isFloat THEN FLe(lo, hi) ELSE lo <= hi
            /\ IF inverted THEN lo = e[2] /\ hi = e[1] ELSE lo = e[1] /\ hi = e[2]

\* the Gregorian calendar, stated on its own
GregorianLeap(y) == (y % 4 = 0 /\ y % 100 # 0) \/ y % 400 = 0

ValidCalendarDay(y, m, d) ==
    /\ m \in 1..12
    /\ d >= 1
    /\ d <= (IF m \in {1, 3, 5, 7, 8, 10, 12} THEN 31
             ELSE IF m \in {4, 6, 9, 11} THEN 30
             ELSE IF GregorianLeap(y) THEN 29 ELSE 28)

IsDateClosure(g) == g.fn \in {"rand_date", "rand_datetime"}

\* C6: a returned date or date-time has the drawn year, inside
\* [year_start, year_end]; its month and day form a valid calendar day, with
\* Feb 29 only in a leap year; and in every year of the range, leap or not,
\* some draw yields Dec 31 (at 23:59:59 for a date-time).
C6_DatesValid ==
    /\ (phase = "done" /\ IsDateClosure(gen) /\ out.exc = "none") =>
          /\ out.val.year = draw[1]
          /\ gen.args[1] <= out.val.year /\ out.val.year <= gen.args[2]
          /\ ValidCalendarDay(out.val.year, out.val.month, out.val.day)
          /\ (out.val.month = 2 /\ out.val.day = 29) => GregorianLeap(draw[1])
          /\ gen.fn = "rand_datetime" =>
                /\ out.val.hour \in 0..23
                /\ out.val.minute \in 0..59
                /\ out.val.second \in 0..59
    /\ (phase = "call" /\ IsDateClosure(gen)) =>
          LET D == DrawsFor(gen)
          IN  \A y \in gen.args[1]..gen.args[2] :
                  ValidYear(y) =>
                      \E d \in D :
                          /\ d[1] = y
                          /\ LET r == Call(gen, d)
                             IN  /\ r.exc = "none"
                                 /\ r.val.year = y /\ r.val.month = 12 /\ r.val.day = 31
                                 /\ gen.fn = "rand_datetime" =>
                                       /\ r.val.hour = 23
                                       /\ r.val.minute = 59
                                       /\ r.val.second = 59

\* the last second of a leap year, returned by a date-time generator
C6_Witness ==
    /\ phase = "done" /\ gen.fn = "rand_datetime" /\ out.exc = "none"
    /\ GregorianLeap(out.val.year)
    /\ out.val.month = 12 /\ out.val.day = 31
    /\ out.val.hour = 23 /\ out.val.minute = 59 /\ out.val.second = 59

\* text in fixed-point notation with exactly dec digits after the point
IsFixedPoint(s, dec) ==
    IF dec = 0 THEN Len(s) >= 1 /\ \A i \in 1..Len(s) : IsDigitChar(s[i])
    ELSE /\ Len(s) >= dec + 2
         /\ s[Len(s) - dec] = "."
         /\ \A i \in 1..Len(s) : i # Len(s) - dec => IsDigitChar(s[i])

RECURSIVE DigitsValue(_)
DigitsValue(ds) ==
    IF ds = <<>> THEN 0 ELSE 10 * DigitsValue(SubSeq(ds, 1, Len(ds) - 1)) + ds[Len(ds)]

\* the number a fixed-point text with dec fractional digits denotes, in units
\* of 10^-FracDigits (digits beyond FracDigits are zeros in every text built)
ParseFixed(s, dec) ==
    LET ip == DigitsOf(SubSeq(s, 1, IF dec = 0 THEN Len(s) ELSE Len(s) - dec - 1))
        fr == DigitsOf(SubSeq(s, Len(s) - dec + 1, Len(s) - dec + Min(dec, FracDigits)))
    IN  DigitsValue(ip) * Pow10(FracDigits)
        + DigitsValue(fr) * Pow10(FracDigits - Min(dec, FracDigits))

\* C7: for a float or price configuration with min <= max and decimals = d,
\* the text returned is fixed-point with exactly d fractional digits and its
\* value lies in [min, max].
C7_FixedPointInRange ==
    (phase = "done" /\ gen.fn = "rand_float" /\ FLe(gen.args[1], gen.args[2])) =>
        /\ out.exc = "none"
        /\ IsFixedPoint(out.val, gen.args[3])
        /\ gen.args[1].v <= ParseFixed(out.val, gen.args[3])
        /\ ParseFixed(out.val, gen.args[3]) <= gen.args[2].v

\* C8: build_generator returns a closure for every code and every mapping; a
\* registry code gets the branch of its own name, and any other code gets the
\* fallback, whose every call returns a fresh UUID.
C8_AlwaysBuilds ==
    (phase \in {"call", "done"}) =>
        /\ gen # NoGen
        /\ gen.fn # "none"
        /\ code \in RegistryCodes => gen.branch = code
        /\ code \in {"float", "price"} => gen.fn = "rand_float" /\ Len(gen.args) = 3
        /\ code \notin RegistryCodes =>
              /\ gen.branch = "fallback"
              /\ \A e \in Entropy : Call(gen, e) = Returned(<<"uuid4", e>>)
              /\ phase = "done" => out = Returned(<<"uuid4", draw>>)

\* an unrecognized code whose generator was built from a mapping with a
\* foreign key, then called
C8_Witness ==
    /\ phase = "done" /\ code = "unknown" /\ cfg # EmptyCfg
    /\ gen.branch = "fallback" /\ out.exc = "none"

\* C10: every date / date-time configuration the collector returns yields a
\* generator whose calls return a date without raising.
C10_YearsNeverRaise ==
    (phase = "done" /\ IsDateClosure(gen)) => out.exc = "none"

(***************************************************************************)
(* The random source.  The module random is a deterministic generator: its *)
(* state after random.seed(n) is a function of n, and every draw advances  *)
(* it.  uuid4 (line 175) reads os.urandom instead.                         *)
(***************************************************************************)
RngStates == {0, 1, 2}

\* random.seed(seed), line 375
SeedState(seed) == seed % Cardinality(RngStates)

NextRand(s) == (s + 1) % Cardinality(RngStates)

\* the draw a call of g makes when the random source is in state u and
\* os.urandom yields e
PickDraw(g, u, e) ==
    IF g.fn = "rand_uuid" THEN e
    ELSE IF g.fn = "rand_int" THEN
        (IF g.args[1] > g.args[2] THEN 0
         ELSE g.args[1] + ((u * 37) % (g.args[2] - g.args[1] + 1)))
    ELSE IF g.fn = "random.choice" THEN
        (IF g.args[1] = <<>> THEN 0 ELSE 1 + (u % Len(g.args[1])))
    ELSE IF g.fn = "rand_bool" THEN u % 2 = 0
    ELSE IF g.fn = "rand_cpf" THEN [i \in 1..9 |-> (7 * u + 3 * i) % 10]
    ELSE IF g.fn \in {"rand_date", "rand_datetime"} THEN
        (IF g.args[1] > g.args[2] THEN <<0, 0>>
         ELSE <<g.args[1] + (u % (g.args[2] - g.args[1] + 1)), 31 * u>>)
    ELSE IF g.fn = "rand_float" THEN
        (IF g.args[1].k = "nan" \/ g.args[2].k = "nan" THEN 0
         ELSE Min(g.args[1].v, g.args[2].v) + u)
    ELSE u % 2

(***************************************************************************)
(* main (lines 370-414) and the handler of lines 416-421.                  *)
(***************************************************************************)
\* the types chosen at the menu (1-based positions in COLUMN_TYPES)
MenuChoices == {1, 13, 16, 21}

\* the entries typed at the configuration prompts of a column in main
MainEntrySeq(c) ==
    IF c = "picklist"
    THEN <<Entries(<<",">>, Empty, Empty), Entries(<<"A", ",", "B">>, Empty, Empty)>>
    ELSE IF c = "int" THEN <<Entries(Num(7), Num(3), Empty)>>
    ELSE <<NoInp>>

MainEntries(c) == {MainEntrySeq(c)[i] : i \in 1..Len(MainEntrySeq(c))}

\* the texts typed at the column-name prompt
NameEntries == {<<>>, <<"x">>}

\* lines 386-395: one (header, generator) pair
MakeColumn(idx, name, entries) ==
    LET col_type == COLUMN_TYPES[idx]
        col_name == prompt_str(name, col_type.label)
        c == IF col_type.needs_config THEN get_column_config(col_type.code, entries)
             ELSE EmptyCfg
    IN  [name |-> col_name, gen |-> build_generator(col_type.code, c)]

\* line 405: [h for (h, _) in columns]
HeaderOf(cols) == [j \in 1..Len(cols) |-> cols[j].name]

\* line 407, one element of the list: the call of the next column's generator
NextField(cols, rw, u, e) ==
    LET g == cols[Len(rw) + 1].gen IN Call(g, PickDraw(g, u, e))

SeedEntries == {Empty, Num(7)}

\* lines 373-377
AskSeed ==
    /\ pc = "seed"
    /\ \/ UNCHANGED rng                                    \* answered N
       \/ \E s \in SeedEntries : rng' = SeedState(prompt_int(s, 42))
    /\ pc' = "num_cols"
    /\ UNCHANGED <<columns, num_cols, num_rows, file, opened, row, created,
                   summary, status, at_intr, generated>>
    /\ UNCHANGED <<pipeVars, runs>>

\* lines 379-380
AskNumCols ==
    /\ pc = "num_cols"
    /\ \E n \in 1..MaxCols :
          /\ PromptIntAccepts(Num(n), 1..200)
          /\ num_cols' = n
    /\ columns' = <<>>
    /\ pc' = "column"
    /\ UNCHANGED <<rng, num_rows, file, opened, row, created, summary, status,
                   at_intr, generated>>
    /\ UNCHANGED <<pipeVars, runs>>

\* lines 382-395, one pass of the loop
ConfigureColumn ==
    /\ pc = "column"
    /\ Len(columns) < num_cols
    /\ \E idx \in MenuChoices, name \in NameEntries :
          /\ PromptIntAccepts(Num(idx), 1..Len(COLUMN_TYPES))
          /\ \E entries \in MainEntries(COLUMN_TYPES[idx].code) :
                columns' = Append(columns, MakeColumn(idx, name, entries))
    /\ UNCHANGED <<pc, rng, num_cols, num_rows, file, opened, row, created,
                   summary, status, at_intr, generated>>
    /\ UNCHANGED <<pipeVars, runs>>

\* lines 397-402
AskNumRows ==
    /\ pc = "column"
    /\ Len(columns) = num_cols
    /\ \E n \in 1..MaxRows :
          /\ PromptIntAccepts(Num(n), 1..10000000)
          /\ num_rows' = n
    /\ created' = 0
    /\ pc' = "open"
    /\ UNCHANGED <<rng, columns, num_cols, file, opened, row, summary, status,
                   at_intr, generated>>
    /\ UNCHANGED <<pipeVars, runs>>

\* line 403: open(out_name, "w") creates the file, empty
OpenFile ==
    /\ pc = "open"
    /\ opened' = TRUE
    /\ file' = <<>>
    /\ pc' = "header"
    /\ UNCHANGED <<rng, columns, num_cols, num_rows, row, created, summary,
                   status, at_intr, generated>>
    /\ UNCHANGED <<pipeVars, runs>>

\* lines 404-405
WriteHeader ==
    /\ pc = "header"
    /\ file' = Append(file, HeaderOf(columns))
    /\ row' = <<>>
    /\ pc' = "row"
    /\ UNCHANGED <<rng, columns, num_cols, num_rows, opened, created, summary,
                   status, at_intr, generated>>
    /\ UNCHANGED <<pipeVars, runs>>

\* line 407, one call gen(); an exception it raises leaves main (the with
\* block closes the file) and ends the process with a traceback
GenerateField ==
    /\ pc = "row"
    /\ \E e \in Entropy :
          LET r == NextField(columns, row, rng, e)
          IN  IF r.exc # "none"
              THEN /\ pc' = "crashed"
                   /\ status' = 1
                   /\ UNCHANGED <<row, generated>>
              ELSE /\ row' = Append(row, r.val)
                   /\ IF Len(row) + 1 = Len(columns)
                      THEN pc' = "write" /\ generated' = Append(generated, row')
                      ELSE pc' = "row" /\ UNCHANGED generated
                   /\ UNCHANGED status
    /\ rng' = IF columns[Len(row) + 1].gen.fn = "rand_uuid" THEN rng ELSE NextRand(rng)
    /\ UNCHANGED <<columns, num_cols, num_rows, file, opened, created, summary, at_intr>>
    /\ UNCHANGED <<pipeVars, runs>>

\* a variant that drops the first row
WriteRow_skip_first ==
    /\ pc = "write"
    /\ file' = IF created = 0 THEN file ELSE Append(file, row)
    /\ pc' = "incr"
    /\ UNCHANGED <<rng, columns, num_cols, num_rows, opened, row, created,
                   summary, status, at_intr, generated>>
    /\ UNCHANGED <<pipeVars, runs>>

\* line 408
WriteRow ==
    /\ pc = "write"
    /\ file' = Append(file, row)
    /\ pc' = "incr"
    /\ UNCHANGED <<rng, columns, num_cols, num_rows, opened, row, created,
                   summary, status, at_intr, generated>>
    /\ UNCHANGED <<pipeVars, runs>>

\* line 409 and the loop test of line 406
Increment ==
    /\ pc = "incr"
    /\ created' = created + 1
    /\ row' = <<>>
    /\ pc' = IF created + 1 < num_rows THEN "row" ELSE "summary"
    /\ UNCHANGED <<rng, columns, num_cols, num_rows, file, opened, summary,
                   status, at_intr, generated>>
    /\ UNCHANGED <<pipeVars, runs>>

\* lines 411-414, then the normal end of the process
PrintSummary ==
    /\ pc = "summary"
    /\ summary' = TRUE
    /\ status' = 0
    /\ pc' = "done"
    /\ UNCHANGED <<rng, columns, num_cols, num_rows, file, opened, row, created,
                   at_intr, generated>>
    /\ UNCHANGED <<pipeVars, runs>>

Running == {"seed", "num_cols", "column", "open", "header", "row", "write",
            "incr", "summary"}

\* a variant in which the row being generated reaches the file
Interrupt_flush_row ==
    /\ pc \in Running
    /\ at_intr' = pc
    /\ file' = IF pc = "row" /\ row # <<>> THEN Append(file, row) ELSE file
    /\ status' = 1
    /\ pc' = "cancelled"
    /\ UNCHANGED <<rng, columns, num_cols, num_rows, opened, row, created,
                   summary, generated>>
    /\ UNCHANGED <<pipeVars, runs>>

\* KeyboardInterrupt at any position of main: the with block, if entered,
\* closes the file as written so far; lines 419-421 print and exit with 1
Interrupt ==
    /\ pc \in Running
    /\ at_intr' = pc
    /\ status' = 1
    /\ pc' = "cancelled"
    /\ UNCHANGED <<rng, columns, num_cols, num_rows, file, opened, row, created,
                   summary, generated>>
    /\ UNCHANGED <<pipeVars, runs>>

PipeIdle ==
    /\ phase = "idle" /\ code = "" /\ inp = NoInp /\ cfg = EmptyCfg
    /\ gen = NoGen /\ draw = <<>> /\ out = NoOut

\* the process starts with the random source seeded from the system
Init ==
    /\ pc = "seed" /\ rng \in RngStates
    /\ columns = <<>> /\ num_cols = 0 /\ num_rows = 0
    /\ file = <<>> /\ opened = FALSE /\ row = <<>> /\ created = 0
    /\ summary = FALSE /\ status = -1 /\ at_intr = "none" /\ generated = <<>>
    /\ PipeIdle /\ RunsIdle

Next ==
    \/ AskSeed \/ AskNumCols \/ ConfigureColumn \/ AskNumRows
    \/ OpenFile \/ WriteHeader \/ GenerateField \/ WriteRow \/ Increment
    \/ PrintSummary \/ Interrupt

Spec == Init /\ [][Next]_vars

(***************************************************************************)
(* Two runs of main with the same answers at every prompt: the same seed,  *)
(* the same column definitions, the same row count.  Each run has its own  *)
(* random source and its own output file.                                  *)
(***************************************************************************)
\* lines 373-375, 403-405 in both runs: seeded, file opened, header written
InitDet ==
    /\ \E n \in 1..MaxCols :
          \E idxs \in [1..n -> MenuChoices], ks \in [1..n -> 1..2] :
              columns = [j \in 1..n |->
                           MakeColumn(idxs[j], <<>>,
                                      LET es == MainEntrySeq(COLUMN_TYPES[idxs[j]].code)
                                      IN  es[Min(ks[j], Len(es))])]
    /\ num_cols = Len(columns)
    /\ num_rows \in 1..MaxRows
    /\ \E s \in SeedEntries :
          runs = [r \in {1, 2} |->
                    [rng |-> SeedState(prompt_int(s, 42)),
                     file |-> <<HeaderOf(columns)>>,
                     row |-> <<>>,
                     pc |-> "row"]]
    /\ pc = "idle" /\ rng = 0
    /\ file = <<>> /\ opened = FALSE /\ row = <<>> /\ created = 0
    /\ summary = FALSE /\ status = -1 /\ at_intr = "none" /\ generated = <<>>
    /\ PipeIdle

\* line 407 in run r
DetGenerateField(r) ==
    /\ runs[r].pc = "row"
    /\ \E e \in Entropy :
          LET me == runs[r]
              res == NextField(columns, me.row, me.rng, e)
              g == columns[Len(me.row) + 1].gen
              rng2 == IF g.fn = "rand_uuid" THEN me.rng ELSE NextRand(me.rng)
          IN  IF res.exc # "none"
              THEN runs' = [runs EXCEPT ![r] = [me EXCEPT !.pc = "crashed", !.rng = rng2]]
              ELSE runs' = [runs EXCEPT ![r] =
                              [me EXCEPT !.row = Append(me.row, res.val),
                                         !.rng = rng2,
                                         !.pc = IF Len(me.row) + 1 = Len(columns)
                                                THEN "write" ELSE "row"]]
    /\ UNCHANGED <<mainVars, pipeVars>>

\* lines 408-409 and the loop test in run r
DetWriteRow(r) ==
    /\ runs[r].pc = "write"
    /\ LET me == runs[r]
       IN  runs' = [runs EXCEPT ![r] =
                      [me EXCEPT !.file = Append(me.file, me.row),
                                 !.row = <<>>,
                                 !.pc = IF Len(me.file) < num_rows THEN "row" ELSE "done"]]
    /\ UNCHANGED <<mainVars, pipeVars>>

NextDet == \E r \in {1, 2} : DetGenerateField(r) \/ DetWriteRow(r)

SpecDet == InitDet /\ [][NextDet]_vars

(***************************************************************************)
(* Properties of the main program.                                         *)
(***************************************************************************)
\* C2: two runs with the same schema and the same seed write the same file.
C2_SameSeedSameFile ==
    (runs # <<>> /\ runs[1].pc = "done" /\ runs[2].pc = "done") =>
        runs[1].file = runs[2].file

\* C4: when main ends normally the file holds the header (the column names
\* in definition order) and then num_rows records of num_cols fields, field j
\* being a value returned by the generator of column j, in the order the rows
\* were generated; the counter `created` equals num_rows.
C4_FileShape ==
    (pc = "done") =>
        /\ status = 0 /\ summary
        /\ Len(columns) = num_cols
        /\ created = num_rows
        /\ Len(file) = num_rows + 1
        /\ Len(file[1]) = num_cols
        /\ \A j \in 1..num_cols : file[1][j] = columns[j].name
        /\ \A i \in 1..num_rows :
              /\ Len(file[i + 1]) = num_cols
              /\ file[i + 1] = generated[i]
              /\ \A j \in 1..num_cols :
                    \E d \in DrawsFor(columns[j].gen) :
                        Call(columns[j].gen, d) = Returned(file[i + 1][j])
        /\ (num_rows = 1 /\ num_cols = 1) => Len(file) = 2

\* one column, one row: the file is the header and one record
C4_Witness ==
    /\ pc = "done" /\ num_rows = 1 /\ num_cols = 1
    /\ Len(file) = 2 /\ Len(file[1]) = 1 /\ Len(file[2]) = 1
    /\ file[2] = generated[1] /\ created = 1

\* the interrupt arrived before every row was written: while prompting, with
\* the file just opened, or with a row still to be generated or written
BeforeCompletion ==
    /\ pc = "cancelled"
    /\ \/ at_intr \in {"seed", "num_cols", "column", "open", "header", "row", "write"}
       \/ at_intr = "incr" /\ created + 1 < num_rows

\* the file holds whole records only: the header, then the first k rows
HeaderAndRows(k) ==
    /\ k <= Len(generated)
    /\ Len(file) = k + 1
    /\ \A i \in 1..Len(file) : Len(file[i]) = num_cols
    /\ file = <<HeaderOf(columns)>> \o SubSeq(generated, 1, k)

\* C9 as stated: after an interrupt before generation completes, the exit
\* status is 1, no summary is printed, and the file, if created, is the
\* header followed by the first k generated rows for some k < num_rows.
C9_InterruptLeavesHeaderAndRows ==
    BeforeCompletion =>
        /\ status = 1
        /\ ~summary
        /\ opened => \E k \in 0..(num_rows - 1) :
                        HeaderAndRows(k)

\* C9 amended: as above, except that the file may also be empty (the
\* interrupt arrived after open() and before the header was written).
C9_InterruptLeavesPrefix ==
    BeforeCompletion =>
        /\ status = 1
        /\ ~summary
        /\ ~opened => file = <<>>
        /\ opened =>
              \/ file = <<>> /\ at_intr = "header"
              \/ \E k \in 0..(num_rows - 1) : HeaderAndRows(k)

\* interrupted while the second field of the second row was being generated
C9_Witness ==
    /\ pc = "cancelled" /\ at_intr = "row"
    /\ num_cols = 2 /\ Len(row) = 1
    /\ Len(file) = 2 /\ num_rows = 2
====
